---- MODULE Spec2Model ----
(***************************************************************************)
(* A model of src/utils.js of js-libp2p-kad-dht: the closest-peer ranker   *)
(* (sortClosestPeers, xorCompare), the path allocator (pathSize) and the   *)
(* resilient invoker (promiseTimeout, retry).                              *)
(*                                                                         *)
(* Four specifications share the module's variables; each one drives the   *)
(* variables of one component and leaves the others at their idle values:  *)
(*   SpecPathSize  pathSize on bounded integer inputs                      *)
(*   SpecSort      sortClosestPeers, its per-peer digests completing in    *)
(*                 any order, called twice on the same arguments           *)
(*   SpecTimeout   one promiseTimeout(promise, timeout, errMsg) call       *)
(*   Spec          retry(options, () => promiseTimeout(op(), timeout))     *)
(* Time is a discrete clock `now`; a timer set by setTimeout(f, d) fires   *)
(* when the clock reads the instant it was set plus d, and the clock does  *)
(* not pass a timer that is due.                                           *)
(***************************************************************************)
EXTENDS Integers, Sequences, FiniteSets, TLC

\* ------------------------------------------------------------------ bounds
MaxResults == 12   \* resultsWanted ranges over 0..MaxResults
MaxPaths == 8      \* numPaths ranges over 1..MaxPaths
MaxPeers == 3      \* at most this many peers in a call, from this many native ids
IdLen == 2         \* bytes of an identifier (the digest is 32 bytes)
ByteBits == 1      \* bits of a byte of the model (a byte has 8)
MaxTimes == 2      \* options.times ranges over 0..MaxTimes
MaxInterval == 2   \* options.interval ranges over 0..MaxInterval
MaxTimeout == 2    \* a given timeout ranges over 0..MaxTimeout
MaxTime == 5       \* the clock stops here

VARIABLES
    \* pathSize
    resultsWanted, numPaths, quota, ps_pc,
    \* sortClosestPeers
    peers, target, distances, sorted, s_pc, run, prevSorted, reordered, prevReordered,
    \* the clock and the timers of the event loop
    now, timers,
    \* promiseTimeout: its arguments, and one record per call of it
    timeout, errMsg, t_pc, attempts,
    \* retry
    options, i, r_pc, waits, thrown

psVars == <<resultsWanted, numPaths, quota, ps_pc>>
sortVars ==
    <<peers, target, distances, sorted, s_pc, run, prevSorted, reordered, prevReordered>>
clockVars == <<now, timers>>
toVars == <<timeout, errMsg, t_pc>>
retryVars == <<options, i, r_pc, waits, thrown>>
vars == <<psVars, sortVars, clockVars, toVars, attempts, retryVars>>

\* An optional argument: given or not (undefined), and its value when given.
NotGiven(v) == [given |-> FALSE, val |-> v]
Given(v) == [given |-> TRUE, val |-> v]

\* An error object: its code, its message, and the call that created it (its
\* identity: two errors of two calls are two objects).
NoError == [code |-> "", message |-> "", by |-> 0]

\* The state of a promise, with the instant it settled (-1 while pending).
Pending == [state |-> "pending", value |-> 0, err |-> NoError, at |-> -1]
Fulfilled(v, t) == [state |-> "fulfilled", value |-> v, err |-> NoError, at |-> t]
Rejected(e, t) == [state |-> "rejected", value |-> 0, err |-> e, at |-> t]

\* The idle values of each component.
PsIdle == resultsWanted = 0 /\ numPaths = 1 /\ quota = 0 /\ ps_pc = "off"
SortIdle ==
    /\ peers = <<>> /\ target = <<>> /\ distances = <<>> /\ sorted = <<>>
    /\ s_pc = "off" /\ run = 0 /\ prevSorted = <<>>
    /\ reordered = FALSE /\ prevReordered = FALSE
RetryIdle ==
    /\ options = [times |-> 0, interval |-> 0] /\ i = 0 /\ r_pc = "off"
    /\ waits = <<>> /\ thrown = NoError
InvokerIdle ==
    /\ now = 0 /\ timers = {}
    /\ timeout = NotGiven(0) /\ errMsg = NotGiven("") /\ t_pc = "off"
    /\ attempts = <<>>
    /\ RetryIdle

\* ---------------------------------------------------------------- pathSize
\* Math.ceil(resultsWanted / numPaths): the quotient rounded up. The division
\* is exact on the integers of the model (both far below 2^53).
MathCeilDiv(a, b) == IF a % b = 0 THEN a \div b ELSE (a \div b) + 1

pathSizeRoundedDown(r, n) == r \div n

pathSize(r, n) == MathCeilDiv(r, n)

PsInit ==
    /\ resultsWanted \in 0..MaxResults
    /\ numPaths \in 1..MaxPaths
    /\ quota = 0
    /\ ps_pc = "call"
    /\ SortIdle /\ InvokerIdle

PathSizeCall ==
    /\ ps_pc = "call"
    /\ quota' = pathSize(resultsWanted, numPaths)
    /\ ps_pc' = "returned"
    /\ UNCHANGED <<resultsWanted, numPaths, sortVars>>
    /\ UNCHANGED <<clockVars, toVars, attempts, retryVars>>

PsNext == PathSizeCall

SpecPathSize == PsInit /\ [][PsNext]_vars

\* C6: pathSize returns the smallest integer q with q * numPaths >= resultsWanted;
\* so pathSize(0, n) = 0, pathSize(r, 1) = r, and the result is at least 1
\* whenever resultsWanted >= 1.
C6_PathQuotaIsCeiling ==
    ps_pc = "returned" =>
        /\ quota \in Int
        /\ quota * numPaths >= resultsWanted
        /\ \A q \in -1..MaxResults + 1 : q * numPaths >= resultsWanted => quota <= q
        /\ (resultsWanted = 0 => quota = 0)
        /\ (numPaths = 1 => quota = resultsWanted)
        /\ (resultsWanted >= 1 => quota >= 1)

\* pathSize(10, 3) has returned 4: a quotient that is rounded up.
C6_Witness ==
    ps_pc = "returned" /\ resultsWanted = 10 /\ numPaths = 3 /\ quota = 4

\* -------------------------------------------------------- sortClosestPeers
RECURSIVE Pow(_, _)
Pow(b, e) == IF e = 0 THEN 1 ELSE b * Pow(b, e - 1)

Byte == 0..(Pow(2, ByteBits) - 1)
Identifier == [1..IdLen -> Byte]
NativeId == 1..MaxPeers

\* a ^ b of JavaScript on two bytes: the bitwise exclusive or.
RECURSIVE BitXor(_, _)
BitXor(a, b) ==
    IF a = 0 THEN b
    ELSE IF b = 0 THEN a
    ELSE (((a % 2) + (b % 2)) % 2) + 2 * BitXor(a \div 2, b \div 2)

\* multihashing.digest(bytes, 'sha2-256'): a fixed, deterministic function of
\* the bytes to an identifier of IdLen bytes. The model's stand-in is a
\* multiplicative hash of the native id, written most significant byte first;
\* equal native ids give equal identifiers.
Digest(id) ==
    LET base == Pow(2, ByteBits)
        h == ((id * 5) + 3) % Pow(base, IdLen)
    IN  [j \in 1..IdLen |-> (h \div Pow(base, IdLen - j)) % base]

convertPeerId(peer) == Digest(peer.id)

\* xor-distance: distance(a, b) is the byte-wise xor of two buffers of one length.
distance(a, b) == [j \in 1..Len(a) |-> BitXor(a[j], b[j])]

\* xor-distance: distance.compare(a, b) walks the bytes from the first, and the
\* first byte that differs decides: -1, 1, or 0 when none differs.
distanceCompare(a, b) ==
    LET differ == {j \in 1..Len(a) : a[j] # b[j]}
    IN  IF differ = {} THEN 0
        ELSE LET j == CHOOSE x \in differ : \A y \in differ : x <= y
             IN  IF a[j] < b[j] THEN -1 ELSE 1

xorCompareReversed(a, b) == distanceCompare(b.distance, a.distance)

xorCompare(a, b) == distanceCompare(a.distance, b.distance)

Front(s) == SubSeq(s, 1, Len(s) - 1)
Last(s) == s[Len(s)]

\* Array.prototype.sort(xorCompare): a stable sort (ECMAScript 2019, V8 since
\* 7.0), as an insertion sort: each element moves left past the elements that
\* compare greater than it, and stops at the first that does not.
RECURSIVE InsertSorted(_, _)
InsertSorted(s, x) ==
    IF s = <<>> THEN <<x>>
    ELSE IF xorCompare(x, Last(s)) < 0
         THEN Append(InsertSorted(Front(s), x), Last(s))
         ELSE Append(s, x)

RECURSIVE ArraySort(_)
ArraySort(arr) ==
    IF arr = <<>> THEN <<>> ELSE InsertSorted(ArraySort(Front(arr)), Last(arr))

\* Promise.all over the mapped promises: it resolves once every one of them has,
\* with their values in the order of the input array.
PromiseAnyResolved(ps) == ps = <<>> \/ \E k \in 1..Len(ps) : ps[k].done

PromiseAllResolved(ps) == \A k \in 1..Len(ps) : ps[k].done

PromiseAllValues(ps) ==
    LET got == SelectSeq(ps, LAMBDA e : e.done)
    IN  [k \in 1..Len(got) |-> [peer |-> got[k].peer, distance |-> got[k].distance]]

SortInit ==
    /\ \E n \in 0..MaxPeers : \E ids \in [1..n -> NativeId] :
          peers = [k \in 1..n |-> [id |-> ids[k], ref |-> k]]
    /\ target \in Identifier
    /\ distances = <<>> /\ sorted = <<>> /\ prevSorted = <<>>
    /\ reordered = FALSE /\ prevReordered = FALSE
    /\ run = 1
    /\ s_pc = "call"
    /\ PsIdle /\ InvokerIdle

\* sortClosestPeers(peers, target) up to its await: peers.map starts one digest
\* per peer.
SortCall ==
    /\ s_pc = "call"
    /\ distances' = [k \in 1..Len(peers) |->
                        [done |-> FALSE, peer |-> peers[k], distance |-> <<>>]]
    /\ sorted' = <<>>
    /\ s_pc' = "hashing"
    /\ UNCHANGED <<peers, target, run, prevSorted, reordered, prevReordered>>
    /\ UNCHANGED <<psVars, clockVars, toVars, attempts, retryVars>>

\* The digest of peer k arrives: the mapped callback resumes, computes the
\* distance to the target and resolves its promise.
ConvertPeerIdDone(k) ==
    /\ s_pc = "hashing"
    /\ k \in 1..Len(distances)
    /\ ~distances[k].done
    /\ distances' = [distances EXCEPT
          ![k].done = TRUE,
          ![k].distance = distance(convertPeerId(distances[k].peer), target)]
    /\ reordered' = (reordered \/ \E j \in 1..(k - 1) : ~distances[j].done)
    /\ UNCHANGED <<peers, target, sorted, s_pc, run, prevSorted, prevReordered>>
    /\ UNCHANGED <<psVars, clockVars, toVars, attempts, retryVars>>

\* Promise.all has resolved: sort the entries and return their peers.
SortResume ==
    /\ s_pc = "hashing"
    /\ PromiseAllResolved(distances)
    /\ LET d == ArraySort(PromiseAllValues(distances))
       IN  sorted' = [k \in 1..Len(d) |-> d[k].peer]
    /\ s_pc' = "returned"
    /\ UNCHANGED <<peers, target, distances, run, prevSorted, reordered, prevReordered>>
    /\ UNCHANGED <<psVars, clockVars, toVars, attempts, retryVars>>

\* The caller calls sortClosestPeers a second time with the same arguments.
SortCallAgain ==
    /\ s_pc = "returned"
    /\ run = 1
    /\ run' = 2
    /\ prevSorted' = sorted
    /\ prevReordered' = reordered
    /\ reordered' = FALSE
    /\ s_pc' = "call"
    /\ UNCHANGED <<peers, target, distances, sorted>>
    /\ UNCHANGED <<psVars, clockVars, toVars, attempts, retryVars>>

SortNext ==
    \/ SortCall
    \/ \E k \in 1..MaxPeers : ConvertPeerIdDone(k)
    \/ SortResume
    \/ SortCallAgain

SpecSort == SortInit /\ [][SortNext]_vars

\* The distance of a peer to the target, and its value as an unsigned
\* big-endian number.
DistanceOf(p) == distance(convertPeerId(p), target)

RECURSIVE Magnitude(_)
Magnitude(d) ==
    IF d = <<>> THEN 0 ELSE Magnitude(Front(d)) * Pow(2, ByteBits) + Last(d)

\* C5: sortClosestPeers returns a permutation of its input in non-decreasing
\* order of the xor distance to the target, read as an unsigned big-endian
\* number, and peers at equal distance keep their relative input order.
C5_SortedStablePermutation ==
    s_pc = "returned" =>
        /\ Len(sorted) = Len(peers)
        /\ {sorted[j].ref : j \in 1..Len(sorted)} = 1..Len(peers)
        /\ \A j \in 1..Len(sorted) : sorted[j] = peers[sorted[j].ref]
        /\ \A j, k \in 1..Len(sorted) :
              j < k =>
                /\ Magnitude(DistanceOf(sorted[j])) <= Magnitude(DistanceOf(sorted[k]))
                /\ (Magnitude(DistanceOf(sorted[j])) = Magnitude(DistanceOf(sorted[k]))
                       => sorted[j].ref < sorted[k].ref)

\* A call has returned that moved a peer forward, on an input with two peers
\* at one distance and a third at another.
C5_Witness ==
    /\ s_pc = "returned"
    /\ Len(sorted) = 3
    /\ \E j, k \in 1..3 : j < k /\ sorted[j].ref > sorted[k].ref
    /\ \E j, k \in 1..3 : j # k /\ DistanceOf(peers[j]) = DistanceOf(peers[k])
    /\ \E j, k \in 1..3 : DistanceOf(peers[j]) # DistanceOf(peers[k])

\* C9: the sort starts only when every digest has arrived, and a second call on
\* the same peers and target returns the same sequence whatever the order in
\* which the digests of either call arrived.
C9_OrderOfCompletionIrrelevant ==
    /\ s_pc = "returned" => \A k \in 1..Len(distances) : distances[k].done
    /\ s_pc = "returned" => Len(distances) = Len(peers)
    /\ (s_pc = "returned" /\ run = 2) => sorted = prevSorted

\* Two calls have returned, the digests of one arriving in input order and
\* those of the other not, on peers that the sort had to reorder.
C9_Witness ==
    /\ s_pc = "returned" /\ run = 2
    /\ reordered # prevReordered
    /\ Len(peers) >= 2
    /\ \E j \in 1..Len(sorted) : sorted[j].ref # j

\* ------------------------------------------------ promiseTimeout and retry
Timeouts == {NotGiven(0)} \cup {Given(ms) : ms \in 0..MaxTimeout}
ErrMsgs == {NotGiven(""), Given(""), Given("query timed out")}
Options == [times : 0..MaxTimes, interval : 0..MaxInterval]

\* The error a failing operation rejects with; call k's is its own object.
OpError(k) == [code |-> "EOP", message |-> "operation failed", by |-> k]

\* !timeout: undefined and 0 are falsy.
FalsyOnlyUndefined(t) == ~t.given

Falsy(t) == ~t.given \/ t.val = 0

\* errcode(errMsg || 'Promise timed out', 'ETIMEDOUT'), created by the timer
\* callback of call k.
TimeoutError(k) ==
    [code |-> "ETIMEDOUT",
     message |-> IF errMsg.given /\ errMsg.val # "" THEN errMsg.val
                 ELSE "Promise timed out",
     by |-> k]

\* Promise.race: the first of its promises to settle settles it, and a later
\* settlement finds it settled and changes nothing.
RaceLastWins(r, outcome) == IF outcome.state = "pending" THEN r ELSE outcome

RaceSettle(r, outcome) == IF r.state = "pending" THEN outcome ELSE r

\* promiseTimeout(p, timeout, errMsg) called at the instant `now`: what it
\* returns (p itself, or the race of p and a new timer), and the timer it sets.
PromiseTimeoutRecord(p) ==
    IF Falsy(timeout)
    THEN [start |-> now, op |-> p, returned |-> "promise", raced |-> Pending,
          due |-> -1]
    ELSE [start |-> now, op |-> p, returned |-> "race",
          raced |-> RaceSettle(Pending, p), due |-> now + timeout.val]

PromiseTimeoutTimers(k) ==
    IF Falsy(timeout) THEN {}
    ELSE {[kind |-> "timeout", att |-> k, due |-> now + timeout.val]}

\* The promise a call of promiseTimeout returned, as its caller sees it.
Outcome(a) == IF a.returned = "promise" THEN a.op ELSE a.raced

\* The call whose race the callback of timer t rejects: the one that set it.
TimerTargetCurrent(t) == Len(attempts)

TimerTarget(t) == t.att

\* retry: the loop condition, the test of the catch block, and the delay of
\* the wait that follows a failed attempt.
LoopContinuesWithoutPlusOne(n) == n < options.times

LoopContinues(n) == n < options.times + 1

IsFirstAttempt(n) == n = 0

IsLastAttempt(n) == n = options.times

WaitDelayGrowing(n) == options.interval * (n + 1)

WaitDelay(n) == options.interval

\* One iteration of retry's loop with i = n, up to its await: the condition,
\* then fn(), which starts the operation and wraps it in promiseTimeout.
\* `tms` are the timers left by the step so far.
StartIteration(n, tms) ==
    /\ i' = n
    /\ IF LoopContinues(n)
       THEN /\ attempts' = Append(attempts, PromiseTimeoutRecord(Pending))
            /\ timers' = tms \cup PromiseTimeoutTimers(Len(attempts) + 1)
            /\ r_pc' = "awaitFn"
       ELSE /\ attempts' = attempts
            /\ timers' = tms
            /\ r_pc' = "resolved"
    /\ UNCHANGED <<waits, thrown>>

\* retry resumes after `await fn()` when the promise of call k, pending until
\* now, has settled as `after`: it returns, throws, or sets the timer of its
\* wait. `tms` are the timers left by the step so far.
RetryResume(k, before, after, tms) ==
    IF r_pc = "awaitFn" /\ k = Len(attempts)
         /\ before.state = "pending" /\ after.state # "pending"
    THEN IF after.state = "fulfilled"
         THEN /\ r_pc' = "resolved"
              /\ timers' = tms
              /\ UNCHANGED <<i, waits, thrown>>
         ELSE IF IsLastAttempt(i)
              THEN /\ r_pc' = "rejected"
                   /\ thrown' = after.err
                   /\ timers' = tms
                   /\ UNCHANGED <<i, waits>>
              ELSE /\ r_pc' = "sleep"
                   /\ timers' = tms \cup
                         {[kind |-> "wait", att |-> k, due |-> now + WaitDelay(i)]}
                   /\ waits' = Append(waits,
                         [after |-> k, delay |-> WaitDelay(i), setAt |-> now])
                   /\ UNCHANGED <<i, thrown>>
    ELSE /\ timers' = tms
         /\ UNCHANGED <<i, r_pc, waits, thrown>>

\* promiseTimeout(promise, timeout, errMsg), called on a promise that is
\* pending or has settled already.
PromiseTimeoutCall ==
    /\ t_pc = "call"
    /\ \E p \in {Pending, Fulfilled(1, now), Rejected(OpError(1), now)} :
          attempts' = <<PromiseTimeoutRecord(p)>>
    /\ timers' = timers \cup PromiseTimeoutTimers(1)
    /\ t_pc' = "returned"
    /\ UNCHANGED <<now, timeout, errMsg, retryVars, psVars, sortVars>>

\* retry(options, fn) up to its first await.
RetryCall ==
    /\ r_pc = "call"
    /\ StartIteration(0, timers)
    /\ UNCHANGED <<now, toVars, options, psVars, sortVars>>

\* The operation of call k settles, fulfilled or rejected. It settles the race
\* of its call if that is still open, and retry resumes if it awaits it.
OpSettle(k) ==
    /\ k \in 1..Len(attempts)
    /\ attempts[k].op.state = "pending"
    /\ \E res \in {Fulfilled(k, now), Rejected(OpError(k), now)} :
          LET a == attempts[k]
              a2 == [a EXCEPT !.op = res,
                              !.raced = IF a.returned = "race"
                                        THEN RaceSettle(a.raced, res) ELSE a.raced]
          IN  /\ attempts' = [attempts EXCEPT ![k] = a2]
              /\ RetryResume(k, Outcome(a), Outcome(a2), timers)
    /\ UNCHANGED <<now, toVars, options, psVars, sortVars>>

\* The timer of a promiseTimeout call fires: its callback rejects the race of
\* that call with a new ETIMEDOUT error.
TimeoutFire(t) ==
    /\ t \in timers
    /\ t.kind = "timeout"
    /\ t.due = now
    /\ LET k == TimerTarget(t)
           a == attempts[k]
           a2 == [a EXCEPT
                    !.raced = RaceSettle(a.raced, Rejected(TimeoutError(t.att), now))]
       IN  /\ attempts' = [attempts EXCEPT ![k] = a2]
           /\ RetryResume(k, Outcome(a), Outcome(a2), timers \ {t})
    /\ UNCHANGED <<now, toVars, options, psVars, sortVars>>

\* The timer of retry's wait fires: i++ and the next iteration.
WaitFire(t) ==
    /\ t \in timers
    /\ t.kind = "wait"
    /\ t.due = now
    /\ r_pc = "sleep"
    /\ StartIteration(i + 1, timers \ {t})
    /\ UNCHANGED <<now, toVars, options, psVars, sortVars>>

\* A millisecond passes; no timer that is due is passed over.
Tick ==
    /\ now < MaxTime
    /\ \A t \in timers : t.due > now
    /\ now' = now + 1
    /\ UNCHANGED <<timers, toVars, attempts, retryVars, psVars, sortVars>>

ToInit ==
    /\ now = 0 /\ timers = {}
    /\ timeout \in Timeouts
    /\ errMsg \in ErrMsgs
    /\ t_pc = "call"
    /\ attempts = <<>>
    /\ RetryIdle /\ PsIdle /\ SortIdle

ToNext ==
    \/ PromiseTimeoutCall
    \/ \E k \in 1..Len(attempts) : OpSettle(k)
    \/ \E t \in timers : TimeoutFire(t)
    \/ Tick

SpecTimeout == ToInit /\ [][ToNext]_vars

Init ==
    /\ now = 0 /\ timers = {}
    /\ timeout \in Timeouts
    /\ errMsg \in ErrMsgs
    /\ t_pc = "off"
    /\ attempts = <<>>
    /\ options \in Options
    /\ i = 0 /\ r_pc = "call" /\ waits = <<>> /\ thrown = NoError
    /\ PsIdle /\ SortIdle

Next ==
    \/ RetryCall
    \/ \E k \in 1..Len(attempts) : OpSettle(k)
    \/ \E t \in timers : TimeoutFire(t)
    \/ \E t \in timers : WaitFire(t)
    \/ Tick

Spec == Init /\ [][Next]_vars

\* ----------------------------------------------------------------- claims
TimedOut(o) == o.state = "rejected" /\ o.err.code = "ETIMEDOUT"
TimerFired(k) ==
    attempts[k].due >= 0 /\ ~\E t \in timers : t.kind = "timeout" /\ t.att = k
TimeoutPositive == timeout.given /\ timeout.val > 0
ExpectedMessage ==
    IF errMsg.given /\ errMsg.val # "" THEN errMsg.val ELSE "Promise timed out"

\* C3: with the timeout absent or zero, promiseTimeout sets no timer and
\* returns the operation's own promise: its outcome is the operation's, at
\* whatever instant that settles, and never an ETIMEDOUT failure.
C3_FalsyTimeoutReturnsPromise ==
    (~timeout.given \/ timeout.val = 0) =>
        /\ timers = {}
        /\ \A k \in 1..Len(attempts) :
              /\ attempts[k].returned = "promise"
              /\ attempts[k].due = -1
              /\ Outcome(attempts[k]) = attempts[k].op
              /\ ~TimedOut(Outcome(attempts[k]))

\* promiseTimeout(promise, 0) has returned, and its result is the operation's
\* value, which arrived at the last instant of the clock.
C3_Witness ==
    /\ timeout = Given(0)
    /\ t_pc = "returned"
    /\ attempts[1].start = 0
    /\ Outcome(attempts[1]).state = "fulfilled"
    /\ Outcome(attempts[1]).at = MaxTime

\* C4: with a positive timeout, the first of the operation and the timer to
\* settle decides the result, once: the operation's own outcome if it settled
\* before the timer fired, an ETIMEDOUT error with the supplied message (the
\* default one if none) if the timer fired first, set timeout ms after the
\* call; what the other does later changes nothing.
C4_FirstToSettleDecides ==
    (t_pc = "returned" /\ TimeoutPositive) =>
        LET a == attempts[1]
            timeoutResult ==
                Rejected([code |-> "ETIMEDOUT", message |-> ExpectedMessage,
                          by |-> 1], a.due)
        IN  /\ a.returned = "race"
            /\ a.due = a.start + timeout.val
            /\ \A t \in timers : t.due = a.due /\ t.due >= now
            /\ (a.raced.state = "pending") <=>
                  (a.op.state = "pending" /\ ~TimerFired(1))
            /\ (a.op.state # "pending" /\ (~TimerFired(1) \/ a.op.at < a.due))
                  => a.raced = a.op
            /\ (TimerFired(1) /\ (a.op.state = "pending" \/ a.op.at > a.due))
                  => a.raced = timeoutResult
            /\ (TimerFired(1) /\ a.op.state # "pending" /\ a.op.at = a.due)
                  => a.raced \in {a.op, timeoutResult}
            /\ timeoutResult.err.message \in {errMsg.val, "Promise timed out"}

\* The timer fired first and the operation was fulfilled later: the result is
\* still the ETIMEDOUT failure.
C4_Witness ==
    /\ t_pc = "returned" /\ TimeoutPositive
    /\ TimerFired(1)
    /\ attempts[1].op.state = "fulfilled"
    /\ attempts[1].op.at > attempts[1].due
    /\ TimedOut(attempts[1].raced)

LastOutcome == Outcome(attempts[Len(attempts)])

C7_AtMostTimesCalls == options.times >= 1 => Len(attempts) <= options.times

\* C8: attempt k + 1 starts exactly options.interval after attempt k settled
\* as a failure; one wait of that delay follows every failed attempt but the
\* last allowed one, and none follows a success; at most one attempt is
\* unsettled at any instant.
C8_SequentialConstantDelay ==
    /\ \A k \in 1..(Len(attempts) - 1) :
          /\ Outcome(attempts[k]).state = "rejected"
          /\ attempts[k + 1].start = Outcome(attempts[k]).at + options.interval
    /\ \A j \in 1..Len(waits) :
          waits[j] = [after |-> j, delay |-> options.interval,
                      setAt |-> Outcome(attempts[j]).at]
    /\ Len(waits) = IF r_pc = "sleep" THEN Len(attempts)
                    ELSE IF attempts = <<>> THEN 0 ELSE Len(attempts) - 1
    /\ Len(waits) <= options.times
    /\ LET waiting == {t \in timers : t.kind = "wait"}
       IN  IF r_pc = "sleep"
           THEN waiting = {[kind |-> "wait", att |-> Len(attempts),
                            due |-> LastOutcome.at + options.interval]}
           ELSE waiting = {}
    /\ (r_pc = "awaitFn") <=> (attempts # <<>> /\ LastOutcome.state = "pending")

\* Three attempts, each failing at once, with two waits of 2 ms between them.
C8_Witness ==
    /\ options = [times |-> 2, interval |-> 2]
    /\ r_pc = "rejected"
    /\ Len(waits) = 2
    /\ attempts[3].start = 4

\* C10: in retry(options, () => promiseTimeout(op(), timeout)) with a positive
\* timeout every attempt sets its own timer, timeout ms after its own start;
\* an attempt fails with ETIMEDOUT only at the instant of its own timer, with
\* the error of that timer, and its operation is left to settle by itself; a
\* timed-out attempt is followed by a wait like any failure, and its error is
\* thrown only when it was the last allowed attempt.
C10_FreshTimerPerAttempt ==
    TimeoutPositive =>
        /\ \A k \in 1..Len(attempts) :
              LET a == attempts[k]
              IN  /\ a.returned = "race"
                  /\ a.due = a.start + timeout.val
                  /\ TimedOut(Outcome(a)) =>
                        /\ Outcome(a).at = a.due
                        /\ Outcome(a).err.by = k
                        /\ a.op.state = "pending" \/ a.op.at >= a.due
                        /\ k = Len(attempts) =>
                              r_pc = IF k = options.times + 1 THEN "rejected"
                                     ELSE "sleep"
        /\ \A t \in timers : t.kind = "timeout" => t.due = attempts[t.att].due
        /\ thrown.code = "ETIMEDOUT" =>
              /\ Len(attempts) = options.times + 1
              /\ thrown = LastOutcome.err

\* The first attempt timed out, its operation is still in flight, and the
\* second attempt is running under its own timer.
C10_Witness ==
    /\ TimeoutPositive
    /\ Len(attempts) = 2 /\ r_pc = "awaitFn"
    /\ TimedOut(Outcome(attempts[1]))
    /\ attempts[1].op.state = "pending"
    /\ \E t \in timers : t.kind = "timeout" /\ t.att = 2

====
